---- MODULE Spec2Model ----
(***************************************************************************)
(* The quiz API of src/main.py: FastAPI handlers over two PostgreSQL       *)
(* tables (categories, questions), each request running on one connection  *)
(* checked out of an asyncpg pool.  A handler's awaits are its steps: the  *)
(* check-out of the connection and each SQL statement.  Every statement    *)
(* runs in its own implicit transaction, so it is one atomic step, and     *)
(* requests interleave between the statements.                             *)
(***************************************************************************)
EXTENDS Integers, Sequences, FiniteSets, TLC

(* ---------------------------- bounds ----------------------------------- *)
\* the categories.id sequence is followed up to this value
MaxCatId == 2
\* the questions.id sequence is followed up to this value
MaxQId == 2
\* the largest pool followed (asyncpg.create_pool's max_size, which
\* startup() leaves to the library)
PoolSize == 2

\* the requests that can be in flight at once
Procs == {"r1", "r2"}
CatIds == 1..MaxCatId
QIds == 1..MaxQId

(* ------------------------- request bodies ------------------------------ *)
NULL == "NULL"

\* CategoryCreate bodies: two of them share a name
CategoryInputs ==
    { [name |-> "Science", description |-> NULL, emoji |-> "e1"],
      [name |-> "Science", description |-> "d2", emoji |-> "e2"],
      [name |-> "History", description |-> "d3", emoji |-> "e3"] }

\* the five text columns of a QuestionCreate body
QuestionTexts ==
    { [question |-> "q1", a_var |-> "a1", b_var |-> "b1", c_var |-> "c1", d_var |-> "d1"] }

\* answer: str, any length; a string is the sequence of its characters
Answers == { <<"b">>, <<"E">>, <<"b", " ">>, <<"e", "e">> }

(* ------------------------- pure functions ------------------------------ *)
\* str.upper() on one character
UpperChar(c) ==
    CASE c = "a" -> "A"
      [] c = "b" -> "B"
      [] c = "c" -> "C"
      [] c = "d" -> "D"
      [] c = "e" -> "E"
      [] OTHER -> c

\* question.answer.upper()
Upper(s) == [i \in 1..Len(s) |-> UpperChar(s[i])]

\* assignment of a string to the column answer CHAR(1): excess characters
\* that are all spaces are cut off, a shorter value is padded with spaces,
\* any other longer value is the error 22001 (string_data_right_truncation)
TooLong == <<"value too long for type character(1)">>
Char1(s) ==
    IF Len(s) = 0 THEN <<" ">>
    ELSE IF \A i \in 2..Len(s) : s[i] = " " THEN <<s[1]>>
    ELSE TooLong

\* a CHECK that lists a fifth letter
AnswerCheck_FiveLetters(v) == v \in { <<"A">>, <<"B">>, <<"C">>, <<"D">>, <<"E">> }

\* CHECK (answer IN ('A', 'B', 'C', 'D'))
AnswerCheck(v) == v \in { <<"A">>, <<"B">>, <<"C">>, <<"D">> }

(* ------------------------------ state ---------------------------------- *)
VARIABLES
    categories,         \* table categories: id -> row
    questions,          \* table questions: id -> row
    categories_id_seq,  \* last value of the SERIAL sequence of categories.id
    questions_id_seq,   \* last value of the SERIAL sequence of questions.id
    pool_max,           \* number of connections the pool was created with
    pool,               \* number of idle connections of the pool
    pc,                 \* per request slot: "idle", "conn" or "mid"
    req,                \* per request slot: what a handler between two statements holds
    resp                \* the response sent by the step just taken

vars == <<categories, questions, categories_id_seq, questions_id_seq, pool_max, pool, pc,
          req, resp>>

NoReq == [op |-> "none", category_id |-> 0]
NoResp == [op |-> "none", status |-> 0, detail |-> "", body |-> {}]

\* a response: the handler it comes from, its status code, the detail of an
\* error or the name of an uncaught exception, and the rows of its body
Response(op, status, detail, body) ==
    [op |-> op, status |-> status, detail |-> detail, body |-> body]

\* HTTPException details and the names of the exceptions no handler catches
CategoryExists == "Category name already exists."
CategoryNotFound == "Category not found."
CategoryMissing == "Category does not exist."
AnswerInvalid == "Answer must be A, B, C or D."
QuestionNotFound == "Question not found."
ForeignKeyViolationError == "ForeignKeyViolationError"
StringDataRightTruncationError == "StringDataRightTruncationError"

\* startup(): the pool is created and create_tables() has made both tables.
\* The pool has a single connection, which every request queues for, or
\* PoolSize of them.
Init ==
    /\ categories = <<>>
    /\ questions = <<>>
    /\ categories_id_seq = 0
    /\ questions_id_seq = 0
    /\ pool_max \in {1, PoolSize}
    /\ pool = pool_max
    /\ pc = [p \in Procs |-> "idle"]
    /\ req = [p \in Procs |-> NoReq]
    /\ resp = NoResp

(* --------------------------- the store --------------------------------- *)
\* row i of table t added or replaced
Put(t, i, row) == [j \in DOMAIN t \cup {i} |-> IF j = i THEN row ELSE t[j]]
\* the rows of table t whose ids are not in gone
Without(t, gone) == [j \in DOMAIN t \ gone |-> t[j]]

\* SELECT 1 FROM categories WHERE id = $1
category_exists(id) == id \in DOMAIN categories

\* a column category_id declared without REFERENCES
ReferencesCategory_Unchecked(cid) == TRUE

\* category_id INTEGER REFERENCES categories(id): the key of a written row
\* must be the id of a row of categories
ReferencesCategory(cid) == cid \in DOMAIN categories

\* a foreign key declared without ON DELETE CASCADE that lets the delete pass
Cascade_None(id) == {}

\* the rows ON DELETE CASCADE removes with category id
Cascade(id) == {q \in DOMAIN questions : questions[q].category_id = id}

(* ------------------------ connection scope ----------------------------- *)
\* get_db before the yield: async with pool.acquire(); a request that
\* finds no idle connection waits
get_db(p) ==
    /\ pc[p] = "idle"
    /\ pool > 0
    /\ pool' = pool - 1
    /\ pc' = [pc EXCEPT ![p] = "conn"]
    /\ resp' = NoResp
    /\ UNCHANGED <<categories, questions, categories_id_seq, questions_id_seq, pool_max, req>>

\* a get_db that gives the connection back only when the handler raised no
\* store error
Exit_LeakOnError(p, r) ==
    /\ resp' = r
    /\ pool' = IF r.status = 500 THEN pool ELSE pool + 1
    /\ pc' = [pc EXCEPT ![p] = "idle"]
    /\ req' = [req EXCEPT ![p] = NoReq]
    /\ UNCHANGED pool_max

\* the handler returns or raises: the response goes out and get_db's
\* async with block is left, which gives the connection back
Exit(p, r) ==
    /\ resp' = r
    /\ pool' = pool + 1
    /\ pc' = [pc EXCEPT ![p] = "idle"]
    /\ req' = [req EXCEPT ![p] = NoReq]
    /\ UNCHANGED pool_max

\* the handler goes on to its second statement
Continue(p, r) ==
    /\ resp' = NoResp
    /\ pc' = [pc EXCEPT ![p] = "mid"]
    /\ req' = [req EXCEPT ![p] = r]
    /\ UNCHANGED <<pool_max, pool>>

(* ------------------------ category endpoints --------------------------- *)
\* a column name declared without UNIQUE
NameTaken_Never(name) == FALSE

\* UNIQUE (name): a row with this name is already there
NameTaken(name) == \E i \in DOMAIN categories : categories[i].name = name

\* an INSERT that binds no description
CategoryRow_NoDescription(id, c) ==
    [id |-> id, name |-> c.name, description |-> NULL, emoji |-> c.emoji]

\* the row INSERT INTO categories ... RETURNING gives back
CategoryRow(id, c) ==
    [id |-> id, name |-> c.name, description |-> c.description, emoji |-> c.emoji]

\* POST /categories/ : one INSERT; the id is drawn from the sequence before
\* the unique index is checked, so a refused insert uses an id up too
add_category(p, c) ==
    LET id == categories_id_seq + 1 IN
    /\ pc[p] = "conn"
    /\ categories_id_seq < MaxCatId
    /\ categories_id_seq' = id
    /\ UNCHANGED questions
    /\ UNCHANGED questions_id_seq
    /\ IF NameTaken(c.name)
       THEN /\ UNCHANGED categories
            /\ Exit(p, Response("add_category", 400, CategoryExists, {}))
       ELSE /\ categories' = Put(categories, id, CategoryRow(id, c))
            /\ Exit(p, Response("add_category", 201, "", {CategoryRow(id, c)}))

\* GET /categories/{category_id}
get_category(p, id) ==
    /\ pc[p] = "conn"
    /\ UNCHANGED <<categories, questions, categories_id_seq, questions_id_seq>>
    /\ IF category_exists(id)
       THEN Exit(p, Response("get_category", 200, "", {categories[id]}))
       ELSE Exit(p, Response("get_category", 404, CategoryNotFound, {}))

\* DELETE /categories/{category_id} : one DELETE, which takes the questions
\* of the category with it (ON DELETE CASCADE); "DELETE 0" is the 404
delete_category(p, id) ==
    /\ pc[p] = "conn"
    /\ UNCHANGED <<categories_id_seq, questions_id_seq>>
    /\ IF category_exists(id)
       THEN /\ categories' = Without(categories, {id})
            /\ questions' = Without(questions, Cascade(id))
            /\ Exit(p, Response("delete_category", 204, "", {}))
       ELSE /\ UNCHANGED <<categories, questions>>
            /\ Exit(p, Response("delete_category", 404, CategoryNotFound, {}))

(* ------------------------ question endpoints --------------------------- *)
\* a QuestionCreate body
QuestionCreate(t, a, cid) ==
    [question |-> t.question, a_var |-> t.a_var, b_var |-> t.b_var, c_var |-> t.c_var,
     d_var |-> t.d_var, answer |-> a, category_id |-> cid]

\* the row a write of body b to question id leaves, answer being the value
\* the column holds
QuestionRow(id, b, answer) ==
    [id |-> id, question |-> b.question, a_var |-> b.a_var, b_var |-> b.b_var,
     c_var |-> b.c_var, d_var |-> b.d_var, answer |-> answer, category_id |-> b.category_id]

\* the value bound to $6 as column answer receives it
Submitted(a) == Char1(Upper(a))

\* POST /questions/, first statement: SELECT 1 FROM categories WHERE id = $1.
\* It reads category_id alone; the rest of the body is first read by the
\* INSERT and is drawn there.
add_question_check(p, cid) ==
    /\ pc[p] = "conn"
    /\ UNCHANGED <<categories, questions, categories_id_seq, questions_id_seq>>
    /\ IF category_exists(cid)
       THEN Continue(p, [op |-> "add_question", category_id |-> cid])
       ELSE Exit(p, Response("add_question", 400, CategoryMissing, {}))

\* POST /questions/, second statement: the INSERT.  The cast of $6 to
\* CHAR(1) fails either when the statement is planned (early: the id
\* sequence is not touched) or when the row is formed (the id is used up);
\* the CHECK constraint is tested when the row is formed, the foreign key
\* at the end of the statement.  Only CheckViolationError is caught.
add_question(p, b) ==
    LET id == questions_id_seq + 1
        v == Submitted(b.answer) IN
    /\ pc[p] = "mid"
    /\ req[p].op = "add_question"
    /\ b.category_id = req[p].category_id
    /\ questions_id_seq < MaxQId
    /\ UNCHANGED <<categories, categories_id_seq>>
    /\ IF v = TooLong
       THEN /\ \E early \in BOOLEAN : questions_id_seq' = IF early THEN questions_id_seq ELSE id
            /\ UNCHANGED questions
            /\ Exit(p, Response("add_question", 500, StringDataRightTruncationError, {}))
       ELSE IF ~AnswerCheck(v)
       THEN /\ questions_id_seq' = id
            /\ UNCHANGED questions
            /\ Exit(p, Response("add_question", 400, AnswerInvalid, {}))
       ELSE IF ~ReferencesCategory(b.category_id)
       THEN /\ questions_id_seq' = id
            /\ UNCHANGED questions
            /\ Exit(p, Response("add_question", 500, ForeignKeyViolationError, {}))
       ELSE /\ questions_id_seq' = id
            /\ questions' = Put(questions, id, QuestionRow(id, b, v))
            /\ Exit(p, Response("add_question", 201, "", {QuestionRow(id, b, v)}))

\* PUT /questions/{question_id}, first statement: the same SELECT, which
\* reads category_id alone
change_question_check(p, cid) ==
    /\ pc[p] = "conn"
    /\ UNCHANGED <<categories, questions, categories_id_seq, questions_id_seq>>
    /\ IF category_exists(cid)
       THEN Continue(p, [op |-> "change_question", category_id |-> cid])
       ELSE Exit(p, Response("change_question", 400, CategoryMissing, {}))

\* PUT /questions/{question_id}, second statement: the UPDATE.  The cast of
\* $6 fails when the statement is planned (early) or when a row is formed,
\* so with no row of that id it fails only if early; no row is the 404.
change_question(p, qid, b) ==
    LET v == Submitted(b.answer) IN
    /\ pc[p] = "mid"
    /\ req[p].op = "change_question"
    /\ b.category_id = req[p].category_id
    /\ UNCHANGED <<categories, categories_id_seq, questions_id_seq>>
    /\ IF v = TooLong
       THEN /\ UNCHANGED questions
            /\ \/ Exit(p, Response("change_question", 500, StringDataRightTruncationError, {}))
               \/ /\ qid \notin DOMAIN questions
                  /\ Exit(p, Response("change_question", 404, QuestionNotFound, {}))
       ELSE IF qid \notin DOMAIN questions
       THEN /\ UNCHANGED questions
            /\ Exit(p, Response("change_question", 404, QuestionNotFound, {}))
       ELSE IF ~AnswerCheck(v)
       THEN /\ UNCHANGED questions
            /\ Exit(p, Response("change_question", 400, AnswerInvalid, {}))
       ELSE IF ~ReferencesCategory(b.category_id)
       THEN /\ UNCHANGED questions
            /\ Exit(p, Response("change_question", 500, ForeignKeyViolationError, {}))
       ELSE /\ questions' = Put(questions, qid, QuestionRow(qid, b, v))
            /\ Exit(p, Response("change_question", 200, "", {QuestionRow(qid, b, v)}))

\* DELETE /questions/{question_id}
delete_question(p, qid) ==
    /\ pc[p] = "conn"
    /\ UNCHANGED <<categories, categories_id_seq, questions_id_seq>>
    /\ IF qid \in DOMAIN questions
       THEN /\ questions' = Without(questions, {qid})
            /\ Exit(p, Response("delete_question", 204, "", {}))
       ELSE /\ UNCHANGED questions
            /\ Exit(p, Response("delete_question", 404, QuestionNotFound, {}))

\* GET /questions/{question_id}
get_question(p, qid) ==
    /\ pc[p] = "conn"
    /\ UNCHANGED <<categories, questions, categories_id_seq, questions_id_seq>>
    /\ IF qid \in DOMAIN questions
       THEN Exit(p, Response("get_question", 200, "", {questions[qid]}))
       ELSE Exit(p, Response("get_question", 404, QuestionNotFound, {}))

\* GET /categories/{category_id}/questions, first statement
get_questions_by_category_check(p, id) ==
    /\ pc[p] = "conn"
    /\ UNCHANGED <<categories, questions, categories_id_seq, questions_id_seq>>
    /\ IF category_exists(id)
       THEN Continue(p, [op |-> "get_questions_by_category", category_id |-> id])
       ELSE Exit(p, Response("get_questions_by_category", 404,
                             CategoryNotFound, {}))

\* GET /categories/{category_id}/questions, second statement
get_questions_by_category(p) ==
    LET id == req[p].category_id IN
    /\ pc[p] = "mid"
    /\ req[p].op = "get_questions_by_category"
    /\ UNCHANGED <<categories, questions, categories_id_seq, questions_id_seq>>
    /\ Exit(p, Response("get_questions_by_category", 200, "",
                        {questions[q] : q \in {x \in DOMAIN questions : questions[x].category_id = id}}))

(* -------------------------- specification ------------------------------ *)
Bodies == {QuestionCreate(t, a, cid) : t \in QuestionTexts, a \in Answers, cid \in CatIds}

Next ==
    \E p \in Procs :
        \/ get_db(p)
        \/ \E c \in CategoryInputs : add_category(p, c)
        \/ \E id \in CatIds : get_category(p, id)
        \/ \E id \in CatIds : delete_category(p, id)
        \/ \E id \in CatIds : add_question_check(p, id)
        \/ \E b \in Bodies : add_question(p, b)
        \/ \E id \in CatIds : change_question_check(p, id)
        \/ \E qid \in QIds, b \in Bodies : change_question(p, qid, b)
        \/ \E qid \in QIds : delete_question(p, qid)
        \/ \E qid \in QIds : get_question(p, qid)
        \/ \E id \in CatIds : get_questions_by_category_check(p, id)
        \/ get_questions_by_category(p)

Spec == Init /\ [][Next]_vars

(* ============================ claims =================================== *)
\* the stored form of answer a is one of the four letters
ValidAnswer(a) == Submitted(a) \in { <<"A">>, <<"B">>, <<"C">>, <<"D">> }

\* the step leaves both tables as they are
StoreUnchanged == categories' = categories /\ questions' = questions

(* C1: a create-question whose category_id names no category when the      *)
(* INSERT runs (never there, or deleted after the pre-check) adds no row   *)
(* and is answered 400 "Category does not exist."  Stated for answers the  *)
(* column accepts, so that the category is the request's only fault.       *)
C1_MissingCategoryIs400 ==
    [][resp'.op = "add_question" => \A p \in Procs :
        /\ \A cid \in CatIds :
              (add_question_check(p, cid) /\ ~category_exists(cid))
                 => (StoreUnchanged /\ resp'.status = 400 /\ resp'.detail = CategoryMissing)
        /\ \A b \in Bodies :
              (add_question(p, b) /\ ValidAnswer(b.answer) /\ b.category_id \notin DOMAIN categories)
                 => (StoreUnchanged /\ resp'.status = 400 /\ resp'.detail = CategoryMissing)
      ]_vars

\* the exceptions asyncpg raises for a violated constraint
ConstraintViolations ==
    {"UniqueViolationError", "CheckViolationError", ForeignKeyViolationError}

(* C7: no request ends in a 500 because its write statement violated a     *)
(* constraint of the store (unique name, answer check, category key).      *)
C7_NoConstraint500 == resp.status = 500 => resp.detail \notin ConstraintViolations

(* C2: a delete-category answered 204 removes the category and every       *)
(* question of it and leaves every other question as it was; the ids it    *)
(* removed never come back, so get-question on them and list-questions on  *)
(* the category answer 404 from then on.                                   *)
C2_DeleteCategoryCascades ==
    [][\A p \in Procs :
        /\ \A c \in CatIds :
              (resp'.op = "delete_category" /\ resp'.status = 204 /\ delete_category(p, c))
                 => /\ c \in DOMAIN categories
                    /\ c \notin DOMAIN categories'
                    /\ \A q \in DOMAIN questions' : questions'[q].category_id # c
                    /\ \A q \in DOMAIN questions :
                          IF questions[q].category_id = c
                          THEN q \notin DOMAIN questions'
                          ELSE q \in DOMAIN questions' /\ questions'[q] = questions[q]
        /\ \A c \in CatIds :
              (c <= categories_id_seq /\ c \notin DOMAIN categories) => c \notin DOMAIN categories'
        /\ \A q \in QIds :
              (q <= questions_id_seq /\ q \notin DOMAIN questions) => q \notin DOMAIN questions'
        /\ \A c \in CatIds :
              (c \notin DOMAIN categories /\ get_questions_by_category_check(p, c))
                 => resp'.status = 404
        /\ \A q \in QIds :
              (q \notin DOMAIN questions /\ get_question(p, q)) => resp'.status = 404
      ]_vars

\* a category was deleted while a question of another category is stored
C2_Witness ==
    /\ resp.op = "delete_category"
    /\ resp.status = 204
    /\ DOMAIN questions # {}
    /\ Cardinality(DOMAIN questions) < questions_id_seq

(* C3: a create-category whose name an existing category has is answered   *)
(* 400 "Category name already exists." and leaves the table as it was; no  *)
(* two categories ever share a name.                                       *)
C3_DuplicateNameRefused ==
    /\ [](\A i, j \in DOMAIN categories : categories[i].name = categories[j].name => i = j)
    /\ [][resp'.op = "add_category" => \A p \in Procs, c \in CategoryInputs :
            (add_category(p, c) /\ \E i \in DOMAIN categories : categories[i].name = c.name)
               => (resp'.status = 400 /\ resp'.detail = CategoryExists /\ StoreUnchanged)
         ]_vars

\* a create-category was refused for its name
C3_Witness ==
    /\ resp.op = "add_category"
    /\ resp.status = 400
    /\ DOMAIN categories # {}

(* C4: the category_id of every stored question is the id of a stored      *)
(* category.                                                               *)
C4_ReferentialIntegrity ==
    \A q \in DOMAIN questions : questions[q].category_id \in DOMAIN categories

\* an update that moves a question to a category deleted under it was refused
C4_Witness ==
    /\ resp.op = "change_question"
    /\ resp.detail = ForeignKeyViolationError
    /\ DOMAIN questions # {}

C6_InvalidAnswerUpdateIs400 ==
    [][resp'.op = "change_question" => \A p \in Procs, qid \in QIds, b \in Bodies :
          ( /\ change_question(p, qid, b)
            /\ qid \in DOMAIN questions
            /\ b.category_id \in DOMAIN categories
            /\ ~ValidAnswer(b.answer) )
             => (resp'.status = 400 /\ resp'.detail = AnswerInvalid /\ StoreUnchanged)
      ]_vars

(* C8: a request holds exactly one connection from its check-out to the    *)
(* end of its handler, whatever the handler's outcome: the connections     *)
(* out are those of the requests in flight, never more than the pool has,  *)
(* and none is out once no request is in flight.                           *)
C8_ConnectionScoped ==
    /\ pool \in 0..pool_max
    /\ Cardinality({p \in Procs : pc[p] # "idle"}) = pool_max - pool
    /\ (\A p \in Procs : pc[p] = "idle") => pool = pool_max

\* a request ended in an uncaught store error and every connection is back
C8_Witness ==
    /\ resp.status = 500
    /\ \A p \in Procs : pc[p] = "idle"
    /\ pool = pool_max

\* the part of C9 on create-category and get-category, for the steps of p
C9_Created(p) ==
    /\ \A c \in CategoryInputs :
          (resp'.op = "add_category" /\ add_category(p, c)
              /\ ~\E i \in DOMAIN categories : categories[i].name = c.name)
             => /\ resp'.status = 201
                /\ resp'.body # {}
                /\ \A r \in resp'.body :
                      /\ r.id \notin DOMAIN categories
                      /\ r.id \in DOMAIN categories'
                      /\ categories'[r.id] = r
                      /\ r.name = c.name
                      /\ r.description = c.description
                      /\ r.emoji = c.emoji
                      /\ \A q \in DOMAIN questions' : questions'[q].category_id # r.id
    /\ \A id \in DOMAIN categories \cap DOMAIN categories' : categories'[id] = categories[id]
    /\ \A id \in CatIds :
          (resp'.op = "get_category" /\ id \in DOMAIN categories /\ get_category(p, id))
             => (resp'.status = 200 /\ resp'.body = {categories[id]})
    /\ \A id \in CatIds :
          (id \in DOMAIN categories /\ get_questions_by_category_check(p, id))
             => pc'[p] = "mid"

(* C9 as stated: a create-category with an unused name is answered 201     *)
(* with a fresh id; while the category is there, get-category returns the  *)
(* submitted name, description and emoji and list-questions returns 200    *)
(* with an empty sequence.                                                 *)
C9_NewCategoryListsEmpty ==
    [][\A p \in Procs :
          /\ C9_Created(p)
          /\ (resp'.op = "get_questions_by_category" /\ get_questions_by_category(p)
                /\ req[p].category_id \in DOMAIN categories)
                => (resp'.status = 200 /\ resp'.body = {})
      ]_vars

(* C9 amended: the list is empty until a create-question or an             *)
(* update-question puts a question into the category; list-questions       *)
(* returns 200 with the questions of the category.                         *)
C9_NewCategoryUsable ==
    [][\A p \in Procs :
          /\ C9_Created(p)
          /\ (resp'.op = "get_questions_by_category" /\ get_questions_by_category(p)
                /\ req[p].category_id \in DOMAIN categories)
                => /\ resp'.status = 200
                   /\ resp'.body = {questions[q] : q \in Cascade(req[p].category_id)}
          /\ \A id \in DOMAIN categories :
                (Cascade(id) = {} /\ \E q \in DOMAIN questions' : questions'[q].category_id = id)
                   => (resp'.op \in {"add_question", "change_question"}
                          /\ resp'.status \in {200, 201})
      ]_vars

\* a category was created after another one was deleted
C9_Witness ==
    /\ resp.op = "add_category"
    /\ resp.status = 201
    /\ Cardinality(DOMAIN categories) < categories_id_seq
    /\ \E r \in resp.body : r.id > 1 /\ categories[r.id] = r

(* C10: update-question fails in a fixed order and changes nothing when it *)
(* fails: 400 "Category does not exist." if the category is missing, else  *)
(* 404 if the question is absent (whatever the CHECK would say of the      *)
(* answer), else 400 "Answer must be A, B, C or D." if the answer is       *)
(* invalid.                                                                *)
C10_UpdateFailureOrder ==
    [][resp'.op = "change_question" => \A p \in Procs :
          /\ \A cid \in CatIds :
                (change_question_check(p, cid) /\ cid \notin DOMAIN categories)
                   => (resp'.status = 400 /\ resp'.detail = CategoryMissing /\ StoreUnchanged)
          /\ \A qid \in QIds, b \in Bodies :
                /\ ( /\ change_question(p, qid, b)
                     /\ qid \notin DOMAIN questions
                     /\ Submitted(b.answer) # TooLong )
                      => (resp'.status = 404 /\ StoreUnchanged)
                /\ ( /\ change_question(p, qid, b)
                     /\ qid \in DOMAIN questions
                     /\ b.category_id \in DOMAIN categories
                     /\ ~ValidAnswer(b.answer) )
                      => (resp'.status = 400 /\ resp'.detail = AnswerInvalid /\ StoreUnchanged)
                /\ (change_question(p, qid, b) /\ resp'.status >= 400) => StoreUnchanged
      ]_vars

====
